---- MODULE Spec2Model ----
(***************************************************************************)
(* A model of loadmovr.py: the MovR bulk loader ("load"), the workload     *)
(* simulator ("run") and the SIGINT shutdown handler that wraps both.      *)
(*                                                                         *)
(* Threads are CPython threads: a list append, a list pop, a len() and a   *)
(* read of a global are each atomic; nothing longer is.  Every storage     *)
(* call (movr.*, run_transaction) is one step that returns, raises or      *)
(* never returns.  Wall-clock time is abstracted to one bit: whether the   *)
(* handler's grace period has elapsed.                                     *)
(***************************************************************************)
EXTENDS Integers, Sequences, FiniteSets, TLC

----------------------------------------------------------------------------
(* Bounds of the model *)

\* longest city list and largest --num-threads handed to the Load Distributor
MaxCities == 5
MaxThreads == 5
\* the same, where the loader threads run as well
MaxLoadCities == 3
MaxLoadThreads == 2
\* how many entities (users, vehicles, rides) the simulation may create
MaxNew == 1
\* a --partition-by entry has at most this many characters, and there are at
\* most this many entries
MaxEntryLen == 4
MaxPairs == 2
\* the largest per-city target count of the chunking runs
MaxCount == 2500

----------------------------------------------------------------------------
(* Program constants *)

\* add_users / add_vehicles: chunk_size = 1000
UserChunk == 1000
VehicleChunk == 1000
\* add_rides: chunk_size = 800
RideChunk == 800

Cities == 1..MaxCities
Threads == 1..MaxThreads

VARIABLES
    mode,                   \* args.subparser_name: "load" or "run"
    proc,                   \* the process: "running" or how it ended
    main_pc,                \* where the main thread is
    TERMINATE_GRACEFULLY,   \* the global stop flag
    sig,                    \* where signal_handler is: "idle" until SIGINT
    grace_elapsed,          \* (time.time() - start) > grace_period
    storage_touched,        \* a MovR connection has been opened
    all_cities,             \* the flattened partition map
    num_threads,
    \* ---- load mode
    num_users, num_vehicles, num_rides,
    cities_to_load,         \* run_data_loader's remaining slice
    spawn_i,                \* loop index of the thread-start loops
    RUNNING_THREADS,        \* load mode: the city group of each started thread
    loader_pc, loader_city, loader_chunk,
    db_count,               \* load mode storage: rows per city and table
    chunks_after_stop,      \* history: chunks a loader began with the flag set
    \* ---- run mode
    read_percentage,        \* in percent; -1 and 101 stand for out of range
    city_list,              \* args.city: <<>> stands for None
    cities,                 \* run_load_generator's city list
    db_seed,                \* what storage holds when "run" starts
    movr_objects,           \* city -> [users, vehicles]
    active_rides,           \* the shared Active Ride Pool
    warm_i,                 \* warm-up loop index
    worker_pc, worker_city, worker_ride, worker_new,
    next_id,                \* ids handed out by storage so far
    ride_started,           \* storage: rides started by the simulation or seed
    end_calls,              \* storage: how many times end_ride ran per ride
    ops_after_stop,         \* history: operations a worker began with the flag set
    \* ---- argument parsing and the operation choice, taken on their own
    pair_list,              \* args.partition_pair: entries as character sequences
    partition_pairs,        \* the dict built by the mapper: <<name, cities>> in insertion order
    cli_pc,                 \* "off", "parse", "flatten", "done"
    flips,                  \* the four random.random() draws of one iteration, in tenths
    operation               \* the operation the draws select

loadVars == <<num_users, num_vehicles, num_rides, cities_to_load, RUNNING_THREADS,
              loader_pc, loader_city, loader_chunk, db_count, chunks_after_stop>>
runVars == <<read_percentage, city_list, cities, db_seed, movr_objects, active_rides, warm_i,
             worker_pc, worker_city, worker_ride, worker_new, next_id,
             ride_started, end_calls, ops_after_stop>>
sharedVars == <<mode, proc, main_pc, TERMINATE_GRACEFULLY, sig, grace_elapsed,
                storage_touched, all_cities, num_threads, spawn_i>>
fnVars == <<pair_list, partition_pairs, cli_pc, flips, operation>>
vars == <<sharedVars, loadVars, runVars, fnVars>>

----------------------------------------------------------------------------
(* Helpers *)

\* int(math.ceil(float(a) / b)) for the small positive integers of the model
CeilDiv(a, b) == IF a % b = 0 THEN a \div b ELSE (a \div b) + 1

Min(a, b) == IF a < b THEN a ELSE b

\* s[:n]
Take(s, n) == SubSeq(s, 1, Min(n, Len(s)))
\* s[n:]
Drop(s, n) == SubSeq(s, Min(n, Len(s)) + 1, Len(s))

\* a thread that has been started and has neither returned nor raised
LoaderAlive(t) == loader_pc[t] \in {"city", "users", "vehicles", "rides", "blocked"}
WorkerAlive(w) ==
    worker_pc[w] \in {"top", "choose", "read", "signup", "signup_append", "add_vehicle",
                      "add_vehicle_append", "start_ride", "start_ride_append",
                      "pop", "end_ride", "blocked"}

\* threading.active_count() - 1
ActiveWorkers == {t \in Threads : LoaderAlive(t) \/ WorkerAlive(t)}

\* what a storage call can do: return, raise TransactionError, never return
StorageOutcomes == {"ok", "error", "hang"}

----------------------------------------------------------------------------
(* Inputs *)

\* all_cities in load mode: the cities of the partition map, in order.  A city
\* named under two --partition-by flags appears twice.
LoadCityLists ==
    {[i \in 1..n |-> i] : n \in 1..MaxCities} \cup {<<1, 1>>, <<1, 2, 1>>}

\* <<num_users, num_vehicles, num_rides>>
LoadCounts == {<<0, 1, 1>>, <<1, 0, 1>>, <<1, 1, 0>>, <<1, 1, 1>>, <<1500, 1001, 1600>>}

\* --read-only-percentage, in percent: below 0, 0.0, 1.0, above 1
ReadPercentages == {-1, 0, 100, 101}

\* --num-threads in run mode: the simulation is checked with one and two workers
SimThreadCounts == {1, 2}

\* --city flags; <<>> is "no flag"
RunCityLists == {<<>>, <<2, 2>>}
\* --city 1 --city 2: the runs in which the registries are watched
RegistryCityList == <<1, 2>>

\* all_cities in run mode (the flattened default partition map, shortened)
DefaultCities == <<1, 2>>

NoRows == [c \in Cities |-> <<>>]
OneRow == [c \in Cities |-> <<c>>]

\* storage as "run" finds it: per city the user ids, vehicle ids and the ids of
\* the rides with no end time
DbSeeds ==
    { [users |-> OneRow, vehicles |-> OneRow, rides |-> [NoRows EXCEPT ![2] = <<2>>]],
      [users |-> OneRow, vehicles |-> [OneRow EXCEPT ![2] = <<>>], rides |-> NoRows],
      [users |-> [OneRow EXCEPT ![2] = <<>>], vehicles |-> OneRow, rides |-> NoRows] }

\* the k-th id storage generates during the run (seed ids are 1..MaxCities)
NewId(k) == MaxCities + k
\* storage creations (users, vehicles, rides) per run: the registry runs get
\* one more than the others, so that two appends can be under way at once
CreateBudget == IF city_list = RegistryCityList THEN MaxNew + 1 ELSE MaxNew
RideIds == 1..NewId(MaxNew + 1)

----------------------------------------------------------------------------
(* Initial state: the process has parsed its arguments (lines 327-368) *)

InitShared ==
    /\ proc = "running"
    /\ main_pc = "start"
    /\ TERMINATE_GRACEFULLY = FALSE
    /\ sig = "idle"
    /\ grace_elapsed = FALSE
    /\ storage_touched = FALSE
    /\ spawn_i = 0

InitLoadState ==
    /\ cities_to_load = <<>>
    /\ RUNNING_THREADS = <<>>
    /\ loader_pc = [t \in Threads |-> "notstarted"]
    /\ loader_city = [t \in Threads |-> 0]
    /\ loader_chunk = [t \in Threads |-> 0]
    /\ db_count = [c \in Cities |-> [users |-> 0, vehicles |-> 0, rides |-> 0]]
    /\ chunks_after_stop = [t \in Threads |-> 0]

InitRunState ==
    /\ cities = <<>>
    /\ movr_objects = [c \in Cities |-> [users |-> <<>>, vehicles |-> <<>>]]
    /\ active_rides = <<>>
    /\ warm_i = 0
    /\ worker_pc = [w \in Threads |-> "notstarted"]
    /\ worker_city = [w \in Threads |-> 0]
    /\ worker_ride = [w \in Threads |-> <<>>]
    /\ worker_new = [w \in Threads |-> 0]
    /\ next_id = 0
    /\ ops_after_stop = [w \in Threads |-> 0]

\* the mapper and the coin flips are not part of these runs
InitFnState ==
    /\ pair_list = <<>> /\ partition_pairs = <<>> /\ cli_pc = "off"
    /\ flips = <<>> /\ operation = "none"

InitSplit ==
    /\ mode = "load"
    /\ all_cities \in LoadCityLists
    /\ num_threads \in 1..MaxThreads
    /\ \E c \in LoadCounts : num_users = c[1] /\ num_vehicles = c[2] /\ num_rides = c[3]
    /\ read_percentage = 0 /\ city_list = <<>>
    /\ db_seed = [users |-> NoRows, vehicles |-> NoRows, rides |-> NoRows]
    /\ ride_started = {} /\ end_calls = [r \in RideIds |-> 0]

InitLoad == InitSplit /\ Len(all_cities) <= MaxLoadCities /\ num_threads <= MaxLoadThreads

InitRun ==
    /\ mode = "run"
    /\ all_cities = DefaultCities
    /\ num_threads \in SimThreadCounts
    /\ num_users = 0 /\ num_vehicles = 0 /\ num_rides = 0
    /\ read_percentage \in ReadPercentages
    /\ city_list \in RunCityLists
    /\ db_seed \in DbSeeds
    /\ ride_started = UNION {{db_seed.rides[c][i] : i \in 1..Len(db_seed.rides[c])} : c \in Cities}
    /\ end_calls = [r \in RideIds |-> 0]

----------------------------------------------------------------------------
(* signal_handler: runs on the main thread, so the main thread does nothing  *)
(* else once it has begun, and it never returns                             *)

\* SIGINT arrives: lines 18-23
SigInterrupt ==
    /\ proc = "running" /\ sig = "idle"
    /\ TERMINATE_GRACEFULLY' = TRUE
    /\ sig' = "loop"
    /\ grace_elapsed' = FALSE
    /\ UNCHANGED <<fnVars, mode, proc, main_pc, storage_touched, all_cities, num_threads, spawn_i,
                   loadVars, runVars>>

\* (mutant) the handler returns to the interrupted code instead of exiting
SigLoopReturns ==
    /\ proc = "running" /\ sig = "loop"
    /\ IF ActiveWorkers = {}
         THEN proc' = proc /\ sig' = "returned"
         ELSE proc' = proc /\ sig' = "timecheck"
    /\ UNCHANGED <<fnVars, mode, main_pc, TERMINATE_GRACEFULLY, grace_elapsed, storage_touched,
                   all_cities, num_threads, spawn_i, loadVars, runVars>>

\* while threading.active_count() > 1: ... / sys.exit(0): lines 24, 31-32
SigLoop ==
    /\ proc = "running" /\ sig = "loop"
    /\ IF ActiveWorkers = {}
         THEN proc' = "graceful" /\ sig' = sig
         ELSE proc' = proc /\ sig' = "timecheck"
    /\ UNCHANGED <<fnVars, mode, main_pc, TERMINATE_GRACEFULLY, grace_elapsed, storage_touched,
                   all_cities, num_threads, spawn_i, loadVars, runVars>>

\* (mutant) the process is killed at the first poll that finds a live thread,
\* whatever the clock says
SigTimeCheckEager ==
    /\ proc = "running" /\ sig = "timecheck"
    /\ proc' = "forced" /\ sig' = sig
    /\ UNCHANGED <<fnVars, mode, main_pc, TERMINATE_GRACEFULLY, grace_elapsed, storage_touched,
                   all_cities, num_threads, spawn_i, loadVars, runVars>>

\* if (time.time() - start) > grace_period: os._exit(1) else: time.sleep(.1)
SigTimeCheck ==
    /\ proc = "running" /\ sig = "timecheck"
    /\ IF grace_elapsed
         THEN proc' = "forced" /\ sig' = sig
         ELSE proc' = proc /\ sig' = "loop"
    /\ UNCHANGED <<fnVars, mode, main_pc, TERMINATE_GRACEFULLY, grace_elapsed, storage_touched,
                   all_cities, num_threads, spawn_i, loadVars, runVars>>

\* time passes: the grace period runs out while the handler polls
GraceTimer ==
    /\ proc = "running" /\ sig \in {"loop", "timecheck"} /\ ~grace_elapsed
    /\ grace_elapsed' = TRUE
    /\ UNCHANGED <<fnVars, mode, proc, main_pc, TERMINATE_GRACEFULLY, sig, storage_touched,
                   all_cities, num_threads, spawn_i, loadVars, runVars>>

\* the exit status of the process
ExitStatus ==
    CASE proc \in {"graceful", "finished"} -> 0
      [] proc \in {"forced", "value_error", "exit1"} -> 1
      [] OTHER -> -1

----------------------------------------------------------------------------
(* Load mode: run_data_loader and load_movr_data *)

\* lines 251-273: validation, the MovR connection, the split sizes
usable_threads == Min(num_threads, Len(all_cities))
\* (mutant) the group size rounded down instead of up
cities_per_thread_floor == Len(all_cities) \div usable_threads
cities_per_thread == CeilDiv(Len(all_cities), usable_threads)
num_users_per_city == CeilDiv(num_users, Len(all_cities))
num_vehicles_per_city == CeilDiv(num_vehicles, Len(all_cities))
num_rides_per_city == CeilDiv(num_rides, Len(all_cities))

LoadValidate ==
    /\ proc = "running" /\ sig = "idle" /\ mode = "load" /\ main_pc = "start"
    /\ IF num_users <= 0 \/ num_rides <= 0 \/ num_vehicles <= 0
         THEN /\ proc' = "value_error"
              /\ UNCHANGED <<main_pc, storage_touched, cities_to_load>>
         ELSE /\ proc' = proc
              /\ storage_touched' = TRUE
              /\ cities_to_load' = all_cities
              /\ main_pc' = "spawn"
    /\ UNCHANGED <<fnVars, mode, TERMINATE_GRACEFULLY, sig, grace_elapsed, all_cities, num_threads,
                   spawn_i, num_users, num_vehicles, num_rides, RUNNING_THREADS,
                   loader_pc, loader_city, loader_chunk, db_count, chunks_after_stop,
                   runVars>>

\* (mutant) a thread is started for every i, also when no city is left
StartLoaderUnguarded(i) ==
    /\ RUNNING_THREADS' = Append(RUNNING_THREADS, Take(cities_to_load, cities_per_thread))
    /\ cities_to_load' = Drop(cities_to_load, cities_per_thread)
    /\ loader_pc' = [loader_pc EXCEPT ![Len(RUNNING_THREADS) + 1] = "city"]
    /\ loader_city' = [loader_city EXCEPT ![Len(RUNNING_THREADS) + 1] = 1]

\* the body of "for i in range(usable_threads)": lines 277-284
StartLoader(i) ==
    IF Len(cities_to_load) > 0
      THEN /\ RUNNING_THREADS' = Append(RUNNING_THREADS, Take(cities_to_load, cities_per_thread))
           /\ cities_to_load' = Drop(cities_to_load, cities_per_thread)
           /\ loader_pc' = [loader_pc EXCEPT ![Len(RUNNING_THREADS) + 1] = "city"]
           /\ loader_city' = [loader_city EXCEPT ![Len(RUNNING_THREADS) + 1] = 1]
      ELSE UNCHANGED <<RUNNING_THREADS, cities_to_load, loader_pc, loader_city>>

LoadSpawn ==
    /\ proc = "running" /\ sig = "idle" /\ mode = "load" /\ main_pc = "spawn"
    /\ IF spawn_i < usable_threads
         THEN /\ StartLoader(spawn_i)
              /\ spawn_i' = spawn_i + 1
              /\ main_pc' = main_pc
         ELSE /\ main_pc' = "wait"
              /\ UNCHANGED <<spawn_i, RUNNING_THREADS, cities_to_load, loader_pc, loader_city>>
    /\ UNCHANGED <<fnVars, mode, proc, TERMINATE_GRACEFULLY, sig, grace_elapsed, storage_touched,
                   all_cities, num_threads, num_users, num_vehicles, num_rides,
                   loader_chunk, db_count, chunks_after_stop, runVars>>

\* (mutant) the report is made without waiting for the loaders
LoadWaitNoJoin ==
    /\ proc = "running" /\ sig = "idle" /\ mode = "load" /\ main_pc = "wait"
    /\ main_pc' = "reported"
    /\ proc' = "finished"
    /\ UNCHANGED <<fnVars, mode, TERMINATE_GRACEFULLY, sig, grace_elapsed, storage_touched,
                   all_cities, num_threads, spawn_i, loadVars, runVars>>

\* lines 286-294: wait for the loaders, then report and return
LoadWait ==
    /\ proc = "running" /\ sig = "idle" /\ mode = "load" /\ main_pc = "wait"
    /\ ActiveWorkers = {}
    /\ main_pc' = "reported"
    /\ proc' = "finished"
    /\ UNCHANGED <<fnVars, mode, TERMINATE_GRACEFULLY, sig, grace_elapsed, storage_touched,
                   all_cities, num_threads, spawn_i, loadVars, runVars>>

\* the city a loader is working on
LoaderCity(t) == RUNNING_THREADS[t][loader_city[t]]

\* "for city in cities: if TERMINATE_GRACEFULLY: break": lines 51-54, 66
LoadCityCheck(t) ==
    /\ proc = "running" /\ loader_pc[t] = "city"
    /\ IF loader_city[t] > Len(RUNNING_THREADS[t]) \/ TERMINATE_GRACEFULLY
         THEN loader_pc' = [loader_pc EXCEPT ![t] = "done"]
         ELSE loader_pc' = [loader_pc EXCEPT ![t] = "users"]
    /\ loader_chunk' = [loader_chunk EXCEPT ![t] = 0]
    /\ UNCHANGED <<fnVars, sharedVars, num_users, num_vehicles, num_rides, cities_to_load,
                   RUNNING_THREADS, loader_city, db_count, chunks_after_stop, runVars>>

\* one iteration of "for chunk in range(0, n, chunk_size): run_transaction(...)"
\* of table `what`: the helper inserts rows chunk .. min(chunk + size, n) - 1.
\* add_vehicles reads the city's users and add_rides its users and vehicles;
\* random.choice of an empty list raises IndexError.
\* (mutant) every chunk is a full one
ChunkRowsFull(chunk, size, n) == size
ChunkRows(chunk, size, n) == Min(chunk + size, n) - chunk

NeedsMissing(what, row) ==
    \/ what = "vehicles" /\ row.users = 0
    \/ what = "rides" /\ (row.users = 0 \/ row.vehicles = 0)

LoadChunk(t, what, size, n, nextTable) ==
    /\ proc = "running" /\ loader_pc[t] = what
    /\ chunks_after_stop' =
         [chunks_after_stop EXCEPT ![t] = IF TERMINATE_GRACEFULLY THEN Min(@ + 1, 2) ELSE @]
    /\ \E outcome \in StorageOutcomes :
         CASE outcome = "hang" ->
                /\ loader_pc' = [loader_pc EXCEPT ![t] = "blocked"]
                /\ UNCHANGED <<loader_chunk, loader_city, db_count>>
           [] outcome = "error" ->
                /\ loader_pc' = [loader_pc EXCEPT ![t] = "failed"]
                /\ UNCHANGED <<loader_chunk, loader_city, db_count>>
           [] outcome = "ok" ->
                IF NeedsMissing(what, db_count[LoaderCity(t)])
                  THEN /\ loader_pc' = [loader_pc EXCEPT ![t] = "crashed"]
                       /\ UNCHANGED <<loader_chunk, loader_city, db_count>>
                  ELSE /\ db_count' = [db_count EXCEPT ![LoaderCity(t)][what] =
                                          @ + ChunkRows(loader_chunk[t], size, n)]
                       /\ IF loader_chunk[t] + size < n
                            THEN /\ loader_chunk' = [loader_chunk EXCEPT ![t] = @ + size]
                                 /\ UNCHANGED <<loader_pc, loader_city>>
                            ELSE /\ loader_chunk' = [loader_chunk EXCEPT ![t] = 0]
                                 /\ loader_pc' = [loader_pc EXCEPT ![t] = nextTable]
                                 /\ loader_city' = [loader_city EXCEPT ![t] =
                                                      IF nextTable = "city" THEN @ + 1 ELSE @]
    /\ UNCHANGED <<fnVars, sharedVars, num_users, num_vehicles, num_rides, cities_to_load,
                   RUNNING_THREADS, runVars>>

\* (mutant) the rides of a city are loaded right after its users
LoadUsersThenRides(t) == LoadChunk(t, "users", UserChunk, num_users_per_city, "rides")
\* add_users: lines 212-228
LoadUsers(t) == LoadChunk(t, "users", UserChunk, num_users_per_city, "vehicles")
\* add_vehicles: lines 230-247
LoadVehicles(t) == LoadChunk(t, "vehicles", VehicleChunk, num_vehicles_per_city, "rides")
\* add_rides: lines 185-210
LoadRides(t) == LoadChunk(t, "rides", RideChunk, num_rides_per_city, "city")

----------------------------------------------------------------------------
(* Run mode: run_load_generator and simulate_movr_load *)

\* lines 298-308
RunValidate ==
    /\ proc = "running" /\ sig = "idle" /\ mode = "run" /\ main_pc = "start"
    /\ IF read_percentage < 0 \/ read_percentage > 100
         THEN /\ proc' = "value_error"
              /\ UNCHANGED <<main_pc, storage_touched, cities, warm_i>>
         ELSE /\ proc' = proc
              /\ cities' = IF city_list = <<>> THEN all_cities ELSE city_list
              /\ storage_touched' = TRUE
              /\ warm_i' = 1
              /\ main_pc' = "warmup"
    /\ UNCHANGED <<fnVars, mode, TERMINATE_GRACEFULLY, sig, grace_elapsed, all_cities, num_threads,
                   spawn_i, loadVars, read_percentage, city_list, db_seed, movr_objects,
                   active_rides, worker_pc, worker_city, worker_ride, worker_new, next_id,
                   ride_started, end_calls, ops_after_stop>>

\* the RideRefs of get_active_rides(city)
ActiveRidesOf(city) == [i \in 1..Len(db_seed.rides[city]) |-> <<city, db_seed.rides[city][i]>>]

\* (mutant) warm-up goes on to the next city when a registry comes back empty
WarmUpNoCheck ==
    /\ proc = "running" /\ sig = "idle" /\ mode = "run" /\ main_pc = "warmup"
    /\ IF warm_i > Len(cities)
         THEN /\ main_pc' = "spawn"
              /\ UNCHANGED <<movr_objects, active_rides, warm_i>>
         ELSE LET city == cities[warm_i] IN
              /\ movr_objects' = [movr_objects EXCEPT ![city] =
                                    [users |-> db_seed.users[city],
                                     vehicles |-> db_seed.vehicles[city]]]
              /\ active_rides' = active_rides \o ActiveRidesOf(city)
              /\ warm_i' = warm_i + 1
              /\ main_pc' = main_pc
    /\ UNCHANGED <<fnVars, mode, proc, TERMINATE_GRACEFULLY, sig, grace_elapsed, storage_touched,
                   all_cities, num_threads, spawn_i, loadVars, read_percentage, city_list,
                   cities, db_seed, worker_pc, worker_city, worker_ride, worker_new, next_id,
                   ride_started, end_calls, ops_after_stop>>

\* one iteration of the warm-up loop: lines 309-314
WarmUp ==
    /\ proc = "running" /\ sig = "idle" /\ mode = "run" /\ main_pc = "warmup"
    /\ IF warm_i > Len(cities)
         THEN /\ main_pc' = "spawn"
              /\ UNCHANGED <<proc, movr_objects, active_rides, warm_i>>
         ELSE LET city == cities[warm_i] IN
              /\ movr_objects' = [movr_objects EXCEPT ![city] =
                                    [users |-> db_seed.users[city],
                                     vehicles |-> db_seed.vehicles[city]]]
              /\ IF Len(db_seed.vehicles[city]) = 0 \/ Len(db_seed.users[city]) = 0
                   THEN proc' = "exit1" /\ UNCHANGED <<active_rides, warm_i>>
                   ELSE /\ active_rides' = active_rides \o ActiveRidesOf(city)
                        /\ warm_i' = warm_i + 1
                        /\ proc' = proc
              /\ main_pc' = main_pc
    /\ UNCHANGED <<fnVars, mode, TERMINATE_GRACEFULLY, sig, grace_elapsed, storage_touched,
                   all_cities, num_threads, spawn_i, loadVars, read_percentage, city_list,
                   cities, db_seed, worker_pc, worker_city, worker_ride, worker_new, next_id,
                   ride_started, end_calls, ops_after_stop>>

\* lines 318-325: start the simulation threads, then sleep forever
RunSpawn ==
    /\ proc = "running" /\ sig = "idle" /\ mode = "run" /\ main_pc = "spawn"
    /\ IF spawn_i < num_threads
         THEN /\ worker_pc' = [worker_pc EXCEPT ![spawn_i + 1] = "top"]
              /\ spawn_i' = spawn_i + 1
              /\ main_pc' = main_pc
         ELSE /\ main_pc' = "idle"
              /\ UNCHANGED <<worker_pc, spawn_i>>
    /\ UNCHANGED <<fnVars, mode, proc, TERMINATE_GRACEFULLY, sig, grace_elapsed, storage_touched,
                   all_cities, num_threads, loadVars, read_percentage, city_list, cities,
                   db_seed, movr_objects, active_rides, warm_i, worker_city, worker_ride,
                   worker_new, next_id, ride_started, end_calls, ops_after_stop>>

simUnchanged == <<sharedVars, loadVars, read_percentage, city_list, cities, db_seed, warm_i>>

\* the locals of an iteration that is over are dead: forget them
ClearLocals(w) ==
    /\ worker_city' = [worker_city EXCEPT ![w] = 0]
    /\ worker_ride' = [worker_ride EXCEPT ![w] = <<>>]
    /\ worker_new' = [worker_new EXCEPT ![w] = 0]

\* (mutant) the loop never looks at the stop flag
WorkerTopIgnoresFlag(w) ==
    /\ proc = "running" /\ worker_pc[w] = "top"
    /\ worker_pc' = [worker_pc EXCEPT ![w] = "choose"]
    /\ UNCHANGED <<fnVars, simUnchanged, movr_objects, active_rides, worker_city, worker_ride,
                   worker_new, next_id, ride_started, end_calls, ops_after_stop>>

\* "if TERMINATE_GRACEFULLY: return": lines 74-78
WorkerTop(w) ==
    /\ proc = "running" /\ worker_pc[w] = "top"
    /\ worker_pc' = [worker_pc EXCEPT ![w] = IF TERMINATE_GRACEFULLY THEN "done" ELSE "choose"]
    /\ UNCHANGED <<fnVars, simUnchanged, movr_objects, active_rides, worker_city, worker_ride,
                   worker_new, next_id, ride_started, end_calls, ops_after_stop>>

\* creations chosen and not yet made in storage
PendingCreates ==
    Cardinality({w \in Threads : worker_pc[w] \in {"signup", "add_vehicle", "start_ride"}})

\* (mutant) the read test is "<=", so a write is possible at read fraction 1.0
SelectableWithWriteAtOne ==
    (IF read_percentage > 0 THEN {"read"} ELSE {})
    \cup (IF read_percentage <= 100
            THEN {"end_ride"}
                 \cup (IF next_id + PendingCreates < CreateBudget
                         THEN {"signup", "add_vehicle", "start_ride"} ELSE {})
            ELSE {})

\* the operations the coin flips of lines 82-104 can select
Selectable ==
    (IF read_percentage > 0 THEN {"read"} ELSE {})
    \cup (IF read_percentage < 100
            THEN {"end_ride"}
                 \cup (IF next_id + PendingCreates < CreateBudget
                         THEN {"signup", "add_vehicle", "start_ride"} ELSE {})
            ELSE {})

\* where the chosen operation takes the worker: the arguments of the storage
\* call are evaluated first (random.choice raises IndexError on an empty
\* registry), and the end-ride branch tests len(active_rides)
FirstStep(op, reg) ==
    CASE op = "add_vehicle" /\ Len(reg.users) = 0 -> "crashed"
      [] op = "start_ride" /\ (Len(reg.users) = 0 \/ Len(reg.vehicles) = 0) -> "crashed"
      [] op = "end_ride" -> IF Len(active_rides) > 0 THEN "pop" ELSE "top"
      [] OTHER -> op

\* lines 80-105: pick the city and the operation
WorkerChoose(w) ==
    /\ proc = "running" /\ worker_pc[w] = "choose"
    /\ ops_after_stop' =
         [ops_after_stop EXCEPT ![w] = IF TERMINATE_GRACEFULLY THEN Min(@ + 1, 2) ELSE @]
    /\ \E i \in 1..Len(cities), op \in Selectable :
         LET target == FirstStep(op, movr_objects[cities[i]])
         IN /\ worker_city' = [worker_city EXCEPT ![w] =
                                 IF target \in {"pop", "top", "crashed"} THEN 0 ELSE cities[i]]
            /\ worker_pc' = [worker_pc EXCEPT ![w] = target]
    /\ UNCHANGED <<fnVars, simUnchanged, movr_objects, active_rides, worker_ride, worker_new,
                   next_id, ride_started, end_calls>>

\* a storage call that raised TransactionError or never returned
CallFails(w, outcome) ==
    /\ outcome \in {"error", "hang"}
    /\ worker_pc' = [worker_pc EXCEPT ![w] = IF outcome = "error" THEN "failed" ELSE "blocked"]
    /\ ClearLocals(w)

\* movr.get_vehicles(active_city, 25): line 84
WorkerRead(w) ==
    /\ proc = "running" /\ worker_pc[w] = "read"
    /\ \E outcome \in StorageOutcomes :
         \/ CallFails(w, outcome)
         \/ outcome = "ok" /\ worker_pc' = [worker_pc EXCEPT ![w] = "top"] /\ ClearLocals(w)
    /\ UNCHANGED <<fnVars, simUnchanged, movr_objects, active_rides, next_id, ride_started,
                   end_calls, ops_after_stop>>

\* movr.add_user(...) / movr.add_vehicle(...): lines 89, 93-98
WorkerCreate(w, op) ==
    /\ proc = "running" /\ worker_pc[w] = op
    /\ \E outcome \in StorageOutcomes :
         \/ CallFails(w, outcome) /\ UNCHANGED next_id
         \/ /\ outcome = "ok"
            /\ next_id' = next_id + 1
            /\ worker_new' = [worker_new EXCEPT ![w] = NewId(next_id + 1)]
            /\ worker_pc' = [worker_pc EXCEPT ![w] =
                               IF op = "signup" THEN "signup_append" ELSE "add_vehicle_append"]
            /\ UNCHANGED <<worker_city, worker_ride>>
    /\ UNCHANGED <<fnVars, simUnchanged, movr_objects, active_rides, ride_started, end_calls,
                   ops_after_stop>>

WorkerSignup(w) == WorkerCreate(w, "signup")
WorkerAddVehicle(w) == WorkerCreate(w, "add_vehicle")

\* (mutant) the append writes back a list read at warm-up: appends made since are lost
RegistryAppendToSnapshot(city, kind, id) ==
    movr_objects' = [movr_objects EXCEPT ![city][kind] = Append(db_seed[kind][city], id)]

\* movr_objects[active_city][kind].append(...): lines 89, 92
RegistryAppend(city, kind, id) ==
    movr_objects' = [movr_objects EXCEPT ![city][kind] = Append(@, id)]

WorkerSignupAppend(w) ==
    /\ proc = "running" /\ worker_pc[w] = "signup_append"
    /\ RegistryAppend(worker_city[w], "users", worker_new[w])
    /\ worker_pc' = [worker_pc EXCEPT ![w] = "top"]
    /\ ClearLocals(w)
    /\ UNCHANGED <<fnVars, simUnchanged, active_rides, next_id, ride_started, end_calls,
                   ops_after_stop>>

WorkerAddVehicleAppend(w) ==
    /\ proc = "running" /\ worker_pc[w] = "add_vehicle_append"
    /\ RegistryAppend(worker_city[w], "vehicles", worker_new[w])
    /\ worker_pc' = [worker_pc EXCEPT ![w] = "top"]
    /\ ClearLocals(w)
    /\ UNCHANGED <<fnVars, simUnchanged, active_rides, next_id, ride_started, end_calls,
                   ops_after_stop>>

\* (mutant) a start_ride that raised still leaves an entry in the pool
WorkerStartRideAppendsOnError(w) ==
    /\ proc = "running" /\ worker_pc[w] = "start_ride"
    /\ \E outcome \in StorageOutcomes :
         \/ /\ CallFails(w, outcome)
            /\ active_rides' = Append(active_rides, <<worker_city[w], 0>>)
            /\ UNCHANGED <<next_id, ride_started>>
         \/ /\ outcome = "ok"
            /\ next_id' = next_id + 1
            /\ ride_started' = ride_started \cup {NewId(next_id + 1)}
            /\ worker_ride' = [worker_ride EXCEPT ![w] = <<worker_city[w], NewId(next_id + 1)>>]
            /\ worker_pc' = [worker_pc EXCEPT ![w] = "start_ride_append"]
            /\ UNCHANGED <<worker_city, worker_new, active_rides>>
    /\ UNCHANGED <<fnVars, simUnchanged, movr_objects, end_calls, ops_after_stop>>

\* ride = movr.start_ride(...): lines 101-102
WorkerStartRide(w) ==
    /\ proc = "running" /\ worker_pc[w] = "start_ride"
    /\ \E outcome \in StorageOutcomes :
         \/ CallFails(w, outcome) /\ UNCHANGED <<next_id, ride_started>>
         \/ /\ outcome = "ok"
            /\ next_id' = next_id + 1
            /\ ride_started' = ride_started \cup {NewId(next_id + 1)}
            /\ worker_ride' = [worker_ride EXCEPT ![w] = <<worker_city[w], NewId(next_id + 1)>>]
            /\ worker_pc' = [worker_pc EXCEPT ![w] = "start_ride_append"]
            /\ UNCHANGED <<worker_city, worker_new>>
    /\ UNCHANGED <<fnVars, simUnchanged, movr_objects, active_rides, end_calls, ops_after_stop>>

\* active_rides.append(ride): line 103
PoolAppend(ride) == active_rides' = Append(active_rides, ride)

WorkerStartRideAppend(w) ==
    /\ proc = "running" /\ worker_pc[w] = "start_ride_append"
    /\ PoolAppend(worker_ride[w])
    /\ worker_pc' = [worker_pc EXCEPT ![w] = "top"]
    /\ ClearLocals(w)
    /\ UNCHANGED <<fnVars, simUnchanged, movr_objects, next_id, ride_started, end_calls,
                   ops_after_stop>>

\* ride = active_rides.pop(): line 107; pop from an empty list raises IndexError
WorkerPop(w) ==
    /\ proc = "running" /\ worker_pc[w] = "pop"
    /\ IF Len(active_rides) = 0
         THEN /\ worker_pc' = [worker_pc EXCEPT ![w] = "pop_raised"]
              /\ UNCHANGED <<active_rides, worker_ride>>
         ELSE /\ worker_ride' = [worker_ride EXCEPT ![w] = active_rides[Len(active_rides)]]
              /\ active_rides' = SubSeq(active_rides, 1, Len(active_rides) - 1)
              /\ worker_pc' = [worker_pc EXCEPT ![w] = "end_ride"]
    /\ UNCHANGED <<fnVars, simUnchanged, movr_objects, worker_city, worker_new, next_id,
                   ride_started, end_calls, ops_after_stop>>

\* movr.end_ride(ride['city'], ride['id']): line 108
WorkerEndRide(w) ==
    /\ proc = "running" /\ worker_pc[w] = "end_ride"
    /\ \E outcome \in StorageOutcomes :
         \/ CallFails(w, outcome) /\ UNCHANGED end_calls
         \/ /\ outcome = "ok"
            /\ end_calls' = [end_calls EXCEPT ![worker_ride[w][2]] = @ + 1]
            /\ worker_pc' = [worker_pc EXCEPT ![w] = "top"]
            /\ ClearLocals(w)
    /\ UNCHANGED <<fnVars, simUnchanged, movr_objects, active_rides, next_id, ride_started,
                   ops_after_stop>>

NextRun ==
    \/ RunValidate
    \/ WarmUp
    \/ RunSpawn
    \/ \E w \in Threads : WorkerTop(w)
    \/ \E w \in Threads : WorkerChoose(w)
    \/ \E w \in Threads : WorkerRead(w)
    \/ \E w \in Threads : WorkerSignup(w)
    \/ \E w \in Threads : WorkerSignupAppend(w)
    \/ \E w \in Threads : WorkerAddVehicle(w)
    \/ \E w \in Threads : WorkerAddVehicleAppend(w)
    \/ \E w \in Threads : WorkerStartRide(w)
    \/ \E w \in Threads : WorkerStartRideAppend(w)
    \/ \E w \in Threads : WorkerPop(w)
    \/ \E w \in Threads : WorkerEndRide(w)

NextLoad ==
    \/ LoadValidate
    \/ LoadSpawn
    \/ LoadWait
    \/ \E t \in Threads : LoadCityCheck(t)
    \/ \E t \in Threads : LoadUsers(t)
    \/ \E t \in Threads : LoadVehicles(t)
    \/ \E t \in Threads : LoadRides(t)

NextSig ==
    \/ SigInterrupt
    \/ SigLoop
    \/ SigTimeCheck
    \/ GraceTimer

Next == NextLoad \/ NextRun \/ NextSig

Init == InitShared /\ InitLoadState /\ InitRunState /\ InitFnState /\ (InitLoad \/ InitRun)

\* both modes, every thread running
Spec == Init /\ [][Next]_vars

\* one step of loader thread t / of simulation thread w
LoaderStep(t) == LoadCityCheck(t) \/ LoadUsers(t) \/ LoadVehicles(t) \/ LoadRides(t)
WorkerStep(w) ==
    \/ WorkerTop(w) \/ WorkerChoose(w) \/ WorkerRead(w)
    \/ WorkerSignup(w) \/ WorkerSignupAppend(w)
    \/ WorkerAddVehicle(w) \/ WorkerAddVehicleAppend(w)
    \/ WorkerStartRide(w) \/ WorkerStartRideAppend(w)
    \/ WorkerPop(w) \/ WorkerEndRide(w)

\* Scheduling: the handler runs on the main thread, which keeps being scheduled,
\* and the clock advances; every thread that can take a step eventually takes
\* one (a thread stuck in a storage call is "blocked" and has no step).
Fairness ==
    /\ WF_vars(SigLoop) /\ WF_vars(SigTimeCheck) /\ WF_vars(GraceTimer)
    /\ \A t \in 1..MaxLoadThreads : WF_vars(LoaderStep(t)) /\ WF_vars(WorkerStep(t))

FairSpec == Init /\ [][Next]_vars /\ Fairness

\* the simulation alone, uninterrupted, with reads and writes, two workers and
\* two cities
RegistryInit ==
    /\ InitShared /\ InitLoadState /\ InitRunState /\ InitFnState
    /\ mode = "run"
    /\ all_cities = DefaultCities
    /\ num_threads = 2
    /\ num_users = 0 /\ num_vehicles = 0 /\ num_rides = 0
    /\ read_percentage \in {0, 50}
    /\ city_list = RegistryCityList
    /\ db_seed \in {[users |-> OneRow, vehicles |-> OneRow, rides |-> NoRows],
                    [users |-> OneRow, vehicles |-> OneRow,
                     rides |-> [NoRows EXCEPT ![2] = <<2>>]]}
    /\ ride_started = UNION {{db_seed.rides[c][i] : i \in 1..Len(db_seed.rides[c])} : c \in Cities}
    /\ end_calls = [r \in RideIds |-> 0]
SpecRegistry == RegistryInit /\ [][NextRun]_vars

\* one loader, one city, every target count up to MaxCount
ChunkInit ==
    /\ InitShared /\ InitLoadState /\ InitRunState /\ InitFnState
    /\ mode = "load"
    /\ all_cities = <<1>>
    /\ num_threads = 1
    /\ \E n \in 1..MaxCount : num_users = n /\ num_vehicles = n /\ num_rides = n
    /\ read_percentage = 0 /\ city_list = <<>>
    /\ db_seed = [users |-> NoRows, vehicles |-> NoRows, rides |-> NoRows]
    /\ ride_started = {} /\ end_calls = [r \in RideIds |-> 0]
SpecChunks == ChunkInit /\ [][NextLoad]_vars

\* load mode alone, under the same scheduling; the main thread, too, keeps
\* being scheduled, so the polling loop of lines 286-287 is eventually left
FairLoadInit == InitShared /\ InitLoadState /\ InitRunState /\ InitFnState /\ InitLoad
FairLoadNext == NextLoad \/ NextSig
FairLoadSpec == FairLoadInit /\ [][FairLoadNext]_vars /\ Fairness /\ WF_vars(LoadWait)

\* the Load Distributor alone: which loader threads are started, with which cities
SplitInit == InitShared /\ InitLoadState /\ InitRunState /\ InitFnState /\ InitSplit
SplitNext == LoadValidate \/ LoadSpawn
SpecSplit == SplitInit /\ [][SplitNext]_vars

----------------------------------------------------------------------------
(* Argument parsing: extract_partition_pairs_from_cli and lines 361-366 *)

\* the characters of an entry; NoColon is any character but ":"
NoColon == {"a", "b"}
Alphabet == NoColon \cup {":"}
Entries == UNION {[1..n -> Alphabet] : n \in 0..MaxEntryLen}
\* args.partition_pair: None when the flag is absent, else the list of the
\* entries given (action='append' never yields an empty list)
PairLists ==
    {[none |-> TRUE, list |-> <<>>]}
    \cup {[none |-> FALSE, list |-> l] : l \in UNION {[1..n -> Entries] : n \in 1..MaxPairs}}

\* the dict of lines 37-41, keys in the order written
DEFAULT_PARTITION_MAP ==
    << <<"us_east", <<"new york", "boston", "washington dc">> >>,
       <<"us_west", <<"san francisco", "seattle", "los angeles">> >>,
       <<"eu_west", <<"amsterdam", "paris", "rome">> >> >>

\* index of the first ":" of s, 0 if there is none
FirstColon(s) ==
    IF \E i \in 1..Len(s) : s[i] = ":"
      THEN CHOOSE i \in 1..Len(s) : s[i] = ":" /\ \A j \in 1..(i - 1) : s[j] # ":"
      ELSE 0

\* str.split(":"): the segments between the colons, always at least one
RECURSIVE split(_)
split(s) ==
    IF FirstColon(s) = 0
      THEN <<s>>
      ELSE <<SubSeq(s, 1, FirstColon(s) - 1)>> \o split(SubSeq(s, FirstColon(s) + 1, Len(s)))

\* ":".join(segments)
RECURSIVE join(_)
join(segments) ==
    IF Len(segments) = 0 THEN <<>>
    ELSE IF Len(segments) = 1 THEN segments[1]
    ELSE segments[1] \o <<":">> \o join(Tail(segments))

\* (mutant) everything after the second colon is dropped
PairOfTwoSegments(partition_pair) ==
    LET pair == split(partition_pair)
    IN [raised |-> FALSE,
        pair |-> <<pair[1], IF Len(pair) > 1 THEN pair[2] ELSE <<>>>>]

\* lines 120-124: ["default"].append(...) is None, so the first branch would
\* raise TypeError at pair[0]; split never returns an empty list
PairOf(partition_pair) ==
    LET pair == split(partition_pair)
    IN IF Len(pair) < 1
         THEN [raised |-> TRUE, pair |-> <<>>]
         ELSE [raised |-> FALSE, pair |-> <<pair[1], join(Tail(pair))>>]

HasKey(d, k) == \E i \in 1..Len(d) : d[i][1] = k
KeyIndex(d, k) == CHOOSE i \in 1..Len(d) : d[i][1] = k

\* lines 127-130: append to the partition's list, or start it
AddPair(d, pair) ==
    IF HasKey(d, pair[1])
      THEN [d EXCEPT ![KeyIndex(d, pair[1])] = <<pair[1], Append(@[2], pair[2])>>]
      ELSE Append(d, <<pair[1], <<pair[2]>>>>)

\* the loop of lines 118-130 over the entries from position i on
RECURSIVE BuildPairs(_, _, _)
BuildPairs(d, list, i) ==
    IF i > Len(list) THEN [raised |-> FALSE, map |-> d]
    ELSE IF PairOf(list[i]).raised THEN [raised |-> TRUE, map |-> d]
    ELSE BuildPairs(AddPair(d, PairOf(list[i]).pair), list, i + 1)

extract_partition_pairs_from_cli(pl) ==
    IF pl.none
      THEN [raised |-> FALSE, map |-> DEFAULT_PARTITION_MAP]
      ELSE BuildPairs(<<>>, pl.list, 1)

\* line 362
ExtractPartitionPairs ==
    /\ proc = "running" /\ cli_pc = "parse"
    /\ LET r == extract_partition_pairs_from_cli(pair_list)
       IN IF r.raised
            THEN proc' = "type_error" /\ UNCHANGED <<partition_pairs, cli_pc>>
            ELSE proc' = proc /\ partition_pairs' = r.map /\ cli_pc' = "flatten"
    /\ UNCHANGED <<mode, main_pc, TERMINATE_GRACEFULLY, sig, grace_elapsed, storage_touched,
                   all_cities, num_threads, spawn_i, loadVars, runVars,
                   pair_list, flips, operation>>

\* the concatenation of the partitions' lists, in the order of the keys
RECURSIVE ConcatCities(_)
ConcatCities(d) == IF Len(d) = 0 THEN <<>> ELSE d[1][2] \o ConcatCities(Tail(d))

\* lines 364-366
FlattenCities ==
    /\ proc = "running" /\ cli_pc = "flatten"
    /\ all_cities' = ConcatCities(partition_pairs)
    /\ cli_pc' = "done"
    /\ UNCHANGED <<mode, proc, main_pc, TERMINATE_GRACEFULLY, sig, grace_elapsed,
                   storage_touched, num_threads, spawn_i, loadVars, runVars,
                   pair_list, partition_pairs, flips, operation>>

\* "load" up to the call of run_data_loader
CliInit ==
    /\ InitShared /\ InitLoadState /\ InitRunState
    /\ mode = "load" /\ all_cities = <<>> /\ num_threads = 1
    /\ num_users = 1 /\ num_vehicles = 1 /\ num_rides = 1
    /\ read_percentage = 0 /\ city_list = <<>>
    /\ db_seed = [users |-> NoRows, vehicles |-> NoRows, rides |-> NoRows]
    /\ ride_started = {} /\ end_calls = [r \in RideIds |-> 0]
    /\ pair_list \in PairLists /\ partition_pairs = <<>> /\ cli_pc = "parse"
    /\ flips = <<>> /\ operation = "none"
CliNext == ExtractPartitionPairs \/ FlattenCities
SpecCli == CliInit /\ [][CliNext]_vars

----------------------------------------------------------------------------
(* The coin flips of one iteration: lines 82-104 *)

\* random.random() is uniform on [0, 1): the tenth of the interval it falls in
Draws == 0..9
FlipTuples == Draws \X Draws \X Draws \X Draws

\* (mutant) the start-ride flip is tested before the add-vehicle flip
ChooseOperationStartRideFirst(rp, f) ==
    IF f[1] * 10 < rp THEN "read"
    ELSE IF f[2] < 1 THEN "signup"
    ELSE IF f[4] < 5 THEN "start_ride"
    ELSE IF f[3] < 1 THEN "add_vehicle"
    ELSE "end_ride"

\* the branch taken with read percentage rp when the draws of lines 82, 86, 90
\* and 99 are f[1] .. f[4] (a draw the code does not make has no effect)
ChooseOperation(rp, f) ==
    IF f[1] * 10 < rp THEN "read"
    ELSE IF f[2] < 1 THEN "signup"
    ELSE IF f[3] < 1 THEN "add_vehicle"
    ELSE IF f[4] < 5 THEN "start_ride"
    ELSE "end_ride"

CoinFlips ==
    /\ proc = "running" /\ operation = "none" /\ flips # <<>>
    /\ operation' = ChooseOperation(read_percentage, flips)
    /\ UNCHANGED <<sharedVars, loadVars, runVars, pair_list, partition_pairs, cli_pc, flips>>

\* one iteration of one worker, for every outcome of the four draws
FlipInit ==
    /\ InitShared /\ InitLoadState /\ InitRunState
    /\ mode = "run" /\ all_cities = DefaultCities /\ num_threads = 1
    /\ num_users = 0 /\ num_vehicles = 0 /\ num_rides = 0
    /\ read_percentage \in {0, 100} /\ city_list = <<>>
    /\ db_seed = [users |-> OneRow, vehicles |-> OneRow, rides |-> NoRows]
    /\ ride_started = {} /\ end_calls = [r \in RideIds |-> 0]
    /\ pair_list = <<>> /\ partition_pairs = <<>> /\ cli_pc = "off"
    /\ flips \in FlipTuples /\ operation = "none"
FlipNext == CoinFlips
SpecFlip == FlipInit /\ [][FlipNext]_vars

----------------------------------------------------------------------------
(* The claims *)

\* C1: every RideRef in the Active Ride Pool has been started and is not yet
\* ended, no RideRef is held by two workers at once, and end_ride runs at most
\* once per ride.
C1_PoolRidesStartedAndEndedOnce ==
    /\ \A i \in 1..Len(active_rides) :
         /\ active_rides[i][2] \in ride_started
         /\ end_calls[active_rides[i][2]] = 0
    /\ \A w, v \in Threads :
         (w # v /\ worker_pc[w] = "end_ride" /\ worker_pc[v] = "end_ride")
            => worker_ride[w] # worker_ride[v]
    /\ \A r \in RideIds : end_calls[r] <= 1

\* C2: no worker ever pops from an empty Active Ride Pool; an end-ride
\* iteration that finds no ride is a no-op and the worker goes on.
C2_NoPopFromEmptyPool ==
    \A w \in Threads : worker_pc[w] # "pop_raised"

RECURSIVE Flatten(_)
Flatten(groups) == IF groups = <<>> THEN <<>> ELSE Head(groups) \o Flatten(Tail(groups))

StartedLoaders == {t \in Threads : loader_pc[t] # "notstarted"}

\* where group k starts in all_cities when the groups are laid end to end
RECURSIVE GroupOffset(_, _)
GroupOffset(groups, k) == IF k = 1 THEN 0 ELSE GroupOffset(groups, k - 1) + Len(groups[k - 1])

\* C3: the Load Distributor starts no more loader threads than there are
\* cities; the groups it hands out are contiguous slices of all_cities in the
\* original order, and laid end to end they are all_cities: nothing dropped,
\* nothing handed out twice.
C3_GroupsPartitionCityList ==
    (mode = "load" /\ main_pc \in {"spawn", "wait"}) =>
        /\ Cardinality(StartedLoaders) = Len(RUNNING_THREADS)
        /\ Len(RUNNING_THREADS) <= Len(all_cities)
        /\ Flatten(RUNNING_THREADS) \o cities_to_load = all_cities
        /\ \A k \in 1..Len(RUNNING_THREADS) :
             RUNNING_THREADS[k] =
                SubSeq(all_cities, GroupOffset(RUNNING_THREADS, k) + 1,
                       GroupOffset(RUNNING_THREADS, k) + Len(RUNNING_THREADS[k]))
        /\ main_pc = "wait" => Flatten(RUNNING_THREADS) = all_cities

C3_Witness ==
    /\ main_pc = "wait"
    /\ num_threads = 2
    /\ RUNNING_THREADS = <<<<1, 2, 3>>, <<4, 5>>>>

\* C4 as claimed: exactly usable_threads = min(requested, numCities) loaders are
\* started, each with a non-empty group of at most ceil(numCities / usable_threads)
C4_ExactlyUsableThreadsGroups ==
    (mode = "load" /\ main_pc = "wait") =>
        /\ Len(RUNNING_THREADS) = usable_threads
        /\ \A k \in 1..Len(RUNNING_THREADS) :
             /\ Len(RUNNING_THREADS[k]) >= 1
             /\ Len(RUNNING_THREADS[k]) <= cities_per_thread

\* C4 as amended: at most usable_threads loaders are started, exactly
\* ceil(numCities / cities_per_thread) of them; every group is non-empty and has
\* at most cities_per_thread cities, all but the last exactly that many.
C4_AtMostUsableThreadsGroups ==
    (mode = "load" /\ main_pc = "wait") =>
        /\ Len(RUNNING_THREADS) <= usable_threads
        /\ Len(RUNNING_THREADS) = CeilDiv(Len(all_cities), cities_per_thread)
        /\ Cardinality(StartedLoaders) = Len(RUNNING_THREADS)
        /\ \A k \in 1..Len(RUNNING_THREADS) :
             /\ Len(RUNNING_THREADS[k]) >= 1
             /\ Len(RUNNING_THREADS[k]) <= cities_per_thread
             /\ k < Len(RUNNING_THREADS) => Len(RUNNING_THREADS[k]) = cities_per_thread

\* four cities and three requested threads: two loaders of two cities each
C4_Witness ==
    /\ main_pc = "wait"
    /\ Len(all_cities) = 4 /\ num_threads = 3
    /\ Len(RUNNING_THREADS) = 2
    /\ usable_threads = 3

StartedWorkers == {w \in Threads : worker_pc[w] # "notstarted"}
StartedThreads == StartedLoaders \cup StartedWorkers

\* C6 as claimed: the shutdown coordinator exits 0 only with no worker thread
\* alive, and forces exit 1 only with the grace period elapsed and a worker
\* thread still alive; neither before the stop flag is set.
C6_ForcedOnlyWithLiveWorker ==
    /\ proc = "graceful" => (TERMINATE_GRACEFULLY /\ ActiveWorkers = {})
    /\ proc = "forced" => (TERMINATE_GRACEFULLY /\ grace_elapsed /\ ActiveWorkers # {})

\* C6 as amended: exit 0 is taken only with the stop flag set and no worker
\* thread alive; exit 1 only with the stop flag set, the grace period elapsed
\* and a worker thread alive at the coordinator's latest liveness poll (the
\* time check is entered only from a poll that found one; the thread may have
\* exited since).  The two outcomes are final, so never both.
C6_ShutdownOutcomes ==
    /\ [](proc = "graceful" => (TERMINATE_GRACEFULLY /\ ActiveWorkers = {}))
    /\ [](proc = "forced" => (TERMINATE_GRACEFULLY /\ grace_elapsed /\ sig = "timecheck"))
    /\ [][(sig' = "timecheck" /\ sig # "timecheck") => ActiveWorkers # {}]_vars
    /\ [][(proc \in {"graceful", "forced"}) => (proc' = proc)]_vars

\* forced termination while a worker hangs in a storage call
C6_Witness ==
    /\ proc = "forced"
    /\ \E t \in Threads : worker_pc[t] = "blocked" \/ loader_pc[t] = "blocked"

\* C7: once the stop flag is set a loader starts no further chunk: at most the
\* one whose flag check had already passed is begun with the flag set.
C7_NoChunkAfterStop ==
    \A t \in Threads : chunks_after_stop[t] <= 1

LoadInputInvalid == num_users <= 0 \/ num_rides <= 0 \/ num_vehicles <= 0
ReadInputInvalid == read_percentage < 0 \/ read_percentage > 100
\* a city of the run that storage has no users or no vehicles for
SeedMissing ==
    \E i \in 1..Len(cities) :
        Len(db_seed.users[cities[i]]) = 0 \/ Len(db_seed.vehicles[cities[i]]) = 0

\* C9: no worker thread is ever started when start-up validation fails.  Load
\* mode with a count <= 0 fails before any loader starts and before storage is
\* touched; run mode with a read fraction outside [0,1] fails before warm-up;
\* a warm-up that finds no users or no vehicles for a city exits with status 1
\* before any simulation worker starts.
C9_NoThreadAfterFailedValidation ==
    /\ (mode = "load" /\ LoadInputInvalid) =>
          /\ StartedThreads = {} /\ ~storage_touched
          /\ main_pc = "start" /\ proc \in {"running", "value_error", "graceful"}
    /\ (mode = "run" /\ ReadInputInvalid) =>
          /\ StartedThreads = {} /\ ~storage_touched /\ warm_i = 0
          /\ main_pc = "start" /\ proc \in {"running", "value_error", "graceful"}
    /\ (mode = "run" /\ SeedMissing) =>
          /\ StartedThreads = {}
          /\ main_pc = "warmup" /\ proc \in {"running", "exit1", "graceful"}
    /\ proc = "value_error" => (LoadInputInvalid \/ ReadInputInvalid)
    /\ proc = "exit1" => (SeedMissing /\ ExitStatus = 1)
    /\ proc \in {"value_error", "exit1"} => StartedThreads = {}

\* warm-up has read the first city and exits on the second
C9_Witness ==
    /\ proc = "exit1"
    /\ warm_i = 2
    /\ Len(movr_objects[1].users) > 0

Blocked(t) == worker_pc[t] = "blocked" \/ loader_pc[t] = "blocked"
Terminated == proc \in {"graceful", "forced"}

\* C5 as claimed: after the interrupt, if no worker is blocked the process ends
\* gracefully; it is force-terminated only when some worker is blocked forever.
C5_ForcedOnlyWhenBlocked ==
    proc = "forced" => \E t \in Threads : Blocked(t)

\* C5 as amended: after the interrupt the process always eventually
\* terminates.  It ends gracefully, with status 0, only once no worker is
\* alive; it is force-terminated with status 1 only after the grace period
\* has expired, which always happens when a worker is blocked forever and can
\* also happen when a worker is merely still busy at expiry.
C5_AlwaysTerminates ==
    /\ (sig # "idle") ~> Terminated
    /\ (sig # "idle" /\ \E t \in Threads : Blocked(t)) ~> (proc = "forced")
    /\ [](proc = "graceful" => (ActiveWorkers = {} /\ ExitStatus = 0))
    /\ [](proc = "forced" => (grace_elapsed /\ ExitStatus = 1))

\* a graceful end: both simulation workers saw the flag and returned
C5_Witness ==
    /\ proc = "graceful"
    /\ worker_pc[1] = "done" /\ worker_pc[2] = "done"

InFlight == {"read", "signup", "signup_append", "add_vehicle", "add_vehicle_append",
             "start_ride", "start_ride_append", "pop", "end_ride"}

C10_FailureEndsOnlyThatWorker ==
    /\ [][\A w \in Threads :
            (worker_pc[w] # "failed" /\ worker_pc'[w] = "failed")
               => /\ \A v \in Threads : v # w => worker_pc'[v] = worker_pc[v]
                  /\ movr_objects' = movr_objects
                  /\ active_rides' = active_rides
                  /\ next_id' = next_id /\ ride_started' = ride_started
                  /\ end_calls' = end_calls
                  /\ proc' = proc]_vars
    /\ [][\A t \in Threads :
            (loader_pc[t] # "failed" /\ loader_pc'[t] = "failed")
               => /\ \A u \in Threads : u # t => loader_pc'[u] = loader_pc[u]
                  /\ db_count' = db_count
                  /\ proc' = proc]_vars
    /\ [][\A t \in Threads :
            (worker_pc[t] = "failed" => worker_pc'[t] = "failed")
            /\ (loader_pc[t] = "failed" => loader_pc'[t] = "failed")]_vars
    /\ [](\A t \in Threads :
            (proc = "running" /\ WorkerAlive(t) /\ worker_pc[t] # "blocked")
               => ENABLED WorkerStep(t))
    /\ [](\A t \in Threads :
            (proc = "running" /\ LoaderAlive(t) /\ loader_pc[t] # "blocked")
               => ENABLED LoaderStep(t))

\* one simulation worker has died of a TransactionError and the other is in
\* the middle of a start-ride
C10_Witness ==
    \E w, v \in Threads :
        /\ worker_pc[w] = "failed"
        /\ worker_pc[v] = "start_ride_append"

\* ---- the Partition Mapper

WellFormed(entry) == \E i \in 1..Len(entry) : entry[i] = ":"
NameOf(entry) == SubSeq(entry, 1, FirstColon(entry) - 1)
CityOf(entry) == SubSeq(entry, FirstColon(entry) + 1, Len(entry))

\* the cities of the entries named k, in input order
RECURSIVE CitiesNamed(_, _)
CitiesNamed(list, k) ==
    IF Len(list) = 0 THEN <<>>
    ELSE (IF NameOf(list[1]) = k THEN <<CityOf(list[1])>> ELSE <<>>)
         \o CitiesNamed(Tail(list), k)

Parsed == cli_pc \in {"flatten", "done"}

\* C11: for a list of well-formed entries the mapper splits each entry on its
\* first colon only, returns one key per partition name, and under each name
\* exactly the cities of the entries with that name, in input order: no city is
\* lost and none is added.
C11_MapperKeepsCitiesInOrder ==
    (~pair_list.none /\ \A i \in 1..Len(pair_list.list) : WellFormed(pair_list.list[i]))
      => /\ proc = "running"
         /\ Parsed =>
              /\ {partition_pairs[i][1] : i \in 1..Len(partition_pairs)}
                   = {NameOf(pair_list.list[i]) : i \in 1..Len(pair_list.list)}
              /\ \A i, j \in 1..Len(partition_pairs) :
                   partition_pairs[i][1] = partition_pairs[j][1] => i = j
              /\ \A i \in 1..Len(partition_pairs) :
                   partition_pairs[i][2] = CitiesNamed(pair_list.list, partition_pairs[i][1])
         /\ cli_pc = "done" => Len(all_cities) = Len(pair_list.list)

\* two entries of partition "a", the first with a city that contains a colon
C11_Witness ==
    /\ cli_pc = "done"
    /\ pair_list.list = << <<"a", ":", ":", "b">>, <<"a", ":", "b">> >>
    /\ partition_pairs = << << <<"a">>, << <<":", "b">>, <<"b">> >> >> >>

\* C12: an entry without a colon is a configuration error: the mapper never
\* returns a mapping for a list that holds one, so no partition or city comes
\* of it; an absent list yields the default mapping of three partitions with
\* three cities each.
C12_NoColonIsConfigError ==
    Parsed =>
      /\ pair_list.none =>
            /\ partition_pairs = DEFAULT_PARTITION_MAP
            /\ Len(partition_pairs) = 3
            /\ \A i \in 1..3 : Len(partition_pairs[i][2]) = 3
      /\ ~pair_list.none => \A i \in 1..Len(pair_list.list) : WellFormed(pair_list.list[i])

\* C13: for every list of well-formed partition pairs (and for the default),
\* in the mapping and in all_cities every city appears exactly once and under
\* exactly one partition.
C13_EveryCityOnce ==
    (pair_list.none \/ \A e \in 1..Len(pair_list.list) : WellFormed(pair_list.list[e])) =>
    /\ Parsed =>
         \A i, j \in 1..Len(partition_pairs) :
           \A m \in 1..Len(partition_pairs[i][2]), n \in 1..Len(partition_pairs[j][2]) :
             partition_pairs[i][2][m] = partition_pairs[j][2][n] => (i = j /\ m = n)
    /\ cli_pc = "done" =>
         \A i, j \in 1..Len(all_cities) : all_cities[i] = all_cities[j] => i = j

\* ---- the Workload Simulator at read fraction 1.0

WriteSteps == {"signup", "signup_append", "add_vehicle", "add_vehicle_append",
               "start_ride", "start_ride_append", "pop", "end_ride", "pop_raised"}

\* C14: with read fraction 1.0 every iteration of every worker is a read: no
\* worker is ever in a signup, add-vehicle, start-ride or end-ride, and from the
\* end of warm-up on the pool, the registries and the rides in storage never
\* change.
C14_ReadOnlyAtFullReadFraction ==
    /\ []((mode = "run" /\ read_percentage = 100)
            => \A w \in Threads : worker_pc[w] \notin WriteSteps)
    /\ [][(mode = "run" /\ read_percentage = 100 /\ main_pc \in {"spawn", "idle"})
            => /\ active_rides' = active_rides
               /\ movr_objects' = movr_objects
               /\ ride_started' = ride_started
               /\ end_calls' = end_calls
               /\ next_id' = next_id]_vars

\* a worker is in its browse-vehicles query while the pool holds a ride
C14_Witness ==
    /\ mode = "run" /\ read_percentage = 100
    /\ Len(active_rides) > 0
    /\ \E w \in Threads : worker_pc[w] = "read"

\* ---- the load report

LoadersTerminated ==
    \A t \in Threads : loader_pc[t] \in {"notstarted", "done", "failed", "crashed"}

\* C15 as claimed: the controlling thread reports only after every loader
\* thread has terminated, and once all of them have terminated (normally, by
\* early exit on the stop flag, or by failure) it eventually reports.
C15_ReportAfterWorkers ==
    /\ [](main_pc = "reported" => LoadersTerminated)
    /\ (mode = "load" /\ main_pc = "wait" /\ LoadersTerminated) ~> (main_pc = "reported")

\* C15 as amended: the controlling thread reports only after every loader
\* thread has terminated (normally or by failure), and once all of them have
\* terminated it eventually reports unless the interrupt signal has been
\* raised; after an interrupt the handler ends the process and no report is
\* made, also when every loader has left early on the stop flag.
C15_ReportUnlessInterrupted ==
    /\ [](main_pc = "reported" => (LoadersTerminated /\ sig = "idle" /\ ~TERMINATE_GRACEFULLY))
    /\ [][(main_pc # "reported" /\ main_pc' = "reported")
            => (LoadersTerminated /\ Len(RUNNING_THREADS) > 0 /\ proc' = "finished")]_vars
    /\ (mode = "load" /\ main_pc = "wait" /\ LoadersTerminated /\ sig = "idle")
         ~> (main_pc = "reported" \/ sig # "idle")
    /\ [](proc \in {"graceful", "forced"} => main_pc # "reported")

\* the report was made after one loader had failed and the other had finished
C15_Witness ==
    /\ main_pc = "reported"
    /\ loader_pc[1] = "failed" /\ loader_pc[2] = "done"

\* ---- the operation weights

Operations == {"read", "signup", "add_vehicle", "start_ride", "end_ride"}

\* how many of the 10,000 equally likely outcomes of the draws select each
\* operation at read fraction 0
ReadWeight == Cardinality({f \in FlipTuples : ChooseOperation(0, f) = "read"})
SignupWeight == Cardinality({f \in FlipTuples : ChooseOperation(0, f) = "signup"})
AddVehicleWeight == Cardinality({f \in FlipTuples : ChooseOperation(0, f) = "add_vehicle"})
StartRideWeight == Cardinality({f \in FlipTuples : ChooseOperation(0, f) = "start_ride"})
EndRideWeight == Cardinality({f \in FlipTuples : ChooseOperation(0, f) = "end_ride"})

\* the nested flips, said the other way round
NestedChoice ==
    CASE flips[1] * 10 < read_percentage -> "read"
      [] flips[1] * 10 >= read_percentage /\ flips[2] = 0 -> "signup"
      [] flips[1] * 10 >= read_percentage /\ flips[2] # 0 /\ flips[3] = 0 -> "add_vehicle"
      [] flips[1] * 10 >= read_percentage /\ flips[2] # 0 /\ flips[3] # 0 /\ flips[4] <= 4
           -> "start_ride"
      [] OTHER -> "end_ride"

OneOperationByNestedFlips ==
    operation # "none" =>
      /\ operation \in Operations
      /\ operation = NestedChoice
      /\ read_percentage = 0 => operation # "read"

\* C16 as claimed: at read fraction 0 exactly one operation is selected per
\* iteration, by nested flips in the order signup (10%), add-vehicle (10%),
\* start-ride (50%), end-ride, and the operation probabilities are read 0%,
\* signup 9%, add-vehicle 8.1%, start-ride 41.45%, end-ride 41.45%.
C16_ClaimedOperationWeights ==
    /\ OneOperationByNestedFlips
    /\ (operation # "none" /\ read_percentage = 0) =>
         /\ ReadWeight = 0
         /\ SignupWeight = 900
         /\ AddVehicleWeight = 810
         /\ StartRideWeight * 2 = 8290
         /\ EndRideWeight * 2 = 8290

\* C16 as amended: the selection is as claimed, and the probabilities it gives
\* are read 0%, signup 10%, add-vehicle 9%, start-ride 40.5%, end-ride 40.5%.
C16_NestedOperationWeights ==
    /\ OneOperationByNestedFlips
    /\ (operation # "none" /\ read_percentage = 0) =>
         /\ ReadWeight = 0
         /\ SignupWeight = 1000
         /\ AddVehicleWeight = 900
         /\ StartRideWeight = 4050
         /\ EndRideWeight = 4050
         /\ ReadWeight + SignupWeight + AddVehicleWeight + StartRideWeight + EndRideWeight
              = Cardinality(FlipTuples)

\* all three write flips failed: the iteration is an end-ride
C16_Witness ==
    /\ read_percentage = 0
    /\ flips = <<0, 5, 5, 5>>
    /\ operation = "end_ride"

\* ---- the city registries

Kinds == {"users", "vehicles"}
WarmedUp == mode = "run" /\ main_pc \in {"spawn", "idle"}
AppendStep(kind) == IF kind = "users" THEN "signup_append" ELSE "add_vehicle_append"

\* how often id occurs in a list
Occurrences(list, id) == Cardinality({i \in 1..Len(list) : list[i] = id})

\* the ids storage has handed out for users and vehicles
CreatedObjects == {NewId(k) : k \in 1..next_id} \ ride_started

\* C17: under every interleaving of the workers the registries only grow at
\* their end.  What warm-up read stays as a prefix, so no registry becomes empty
\* and indices stay valid; every user or vehicle storage has created is in
\* exactly one registry exactly once, or still in the hands of the worker that
\* is about to append it; and a step that changes a registry is the append, by
\* a worker, of its new object to the registry of the city it chose.
C17_RegistriesAppendOnly ==
    /\ [](WarmedUp =>
            \A i \in 1..Len(cities) : \A kind \in Kinds :
              LET reg == movr_objects[cities[i]][kind]
                  seed == db_seed[kind][cities[i]]
              IN /\ Len(reg) >= Len(seed) /\ Len(reg) > 0
                 /\ SubSeq(reg, 1, Len(seed)) = seed
                 /\ \A j \in (Len(seed) + 1)..Len(reg) : reg[j] \in CreatedObjects)
    /\ [](WarmedUp =>
            \A id \in CreatedObjects :
              LET held == {w \in Threads : worker_new[w] = id}
                  places == {<<c, kind>> \in Cities \X Kinds :
                               Occurrences(movr_objects[c][kind], id) > 0}
              IN \/ /\ Cardinality(held) = 1 /\ places = {}
                    /\ \A w \in held : worker_pc[w] \in {"signup_append", "add_vehicle_append"}
                 \/ /\ held = {} /\ Cardinality(places) = 1
                    /\ \A pl \in places : Occurrences(movr_objects[pl[1]][pl[2]], id) = 1)
    /\ [][WarmedUp =>
            \A c \in Cities : \A kind \in Kinds :
              movr_objects'[c][kind] # movr_objects[c][kind] =>
                \E w \in Threads :
                  /\ worker_pc[w] = AppendStep(kind) /\ worker_city[w] = c
                  /\ movr_objects'[c][kind] = Append(movr_objects[c][kind], worker_new[w])
                  /\ \A d \in Cities : \A k \in Kinds :
                       <<d, k>> # <<c, kind>> => movr_objects'[d][k] = movr_objects[d][k]]_vars

\* both workers have signed a user up in city 1 and neither has appended yet
C17_Witness ==
    /\ worker_pc[1] = "signup_append" /\ worker_pc[2] = "signup_append"
    /\ worker_city[1] = 1 /\ worker_city[2] = 1

\* ---- the order of a bulk load

LoaderMoves ==
    {<<"notstarted", "city">>, <<"city", "users">>, <<"city", "done">>,
     <<"users", "vehicles">>, <<"vehicles", "rides">>, <<"rides", "city">>}
    \cup ({"users", "vehicles", "rides"} \X {"failed", "blocked"})

\* C18: within a loader and for each city, all user chunks are committed before
\* the first vehicle chunk starts and all vehicle chunks before the first ride
\* chunk, so a vehicle chunk always finds owners and a ride chunk riders and
\* vehicles; the loader finishes a city before it starts the next.
C18_UsersThenVehiclesThenRides ==
    /\ [](\A t \in Threads :
            /\ loader_pc[t] \in {"vehicles", "rides"}
                 => db_count[LoaderCity(t)].users >= num_users_per_city
            /\ loader_pc[t] = "rides"
                 => db_count[LoaderCity(t)].vehicles >= num_vehicles_per_city
            /\ loader_pc[t] \in {"vehicles", "rides"} => ~NeedsMissing(loader_pc[t], db_count[LoaderCity(t)])
            /\ loader_pc[t] # "crashed")
    /\ [][\A t \in Threads :
            /\ loader_pc'[t] # loader_pc[t] => <<loader_pc[t], loader_pc'[t]>> \in LoaderMoves
            /\ (loader_pc[t] # "notstarted" /\ loader_city'[t] # loader_city[t])
                 => /\ loader_pc[t] = "rides" /\ loader_pc'[t] = "city"
                    /\ loader_city'[t] = loader_city[t] + 1
                    /\ db_count'[LoaderCity(t)].rides >= num_rides_per_city]_vars

\* a loader is at the rides of its second city, the first one fully loaded
C18_Witness ==
    \E t \in Threads :
        /\ loader_pc[t] = "rides" /\ loader_city[t] = 2
        /\ db_count[RUNNING_THREADS[t][1]].rides >= num_rides_per_city

\* ---- the chunks of a table

Tables == {"users", "vehicles", "rides"}
ChunkSizeOf(what) ==
    CASE what = "users" -> UserChunk [] what = "vehicles" -> VehicleChunk [] OTHER -> RideChunk
TargetOf(what) ==
    CASE what = "users" -> num_users_per_city
      [] what = "vehicles" -> num_vehicles_per_city
      [] OTHER -> num_rides_per_city

\* C19: loading one table of a city with target n and chunk size C takes
\* exactly ceil(n / C) transactions.  The k-th transaction (k from 0) starts at
\* index k * C, right after the records inserted so far, and inserts between 1
\* and C records: C if another chunk follows, else the records up to n - 1.
\* When no transaction fails the table ends with exactly n records.
C19_ChunksCoverTargetCount ==
    /\ [][\A t \in Threads :
            (loader_pc[t] \in Tables
             /\ db_count'[LoaderCity(t)][loader_pc[t]] # db_count[LoaderCity(t)][loader_pc[t]])
            => LET what == loader_pc[t]
                   size == ChunkSizeOf(what)
                   n == TargetOf(what)
                   chunk == loader_chunk[t]
                   rows == db_count'[LoaderCity(t)][what] - db_count[LoaderCity(t)][what]
               IN /\ rows >= 1 /\ rows <= size
                  /\ chunk % size = 0 /\ chunk < n
                  /\ chunk = db_count[LoaderCity(t)][what]
                  /\ IF loader_pc'[t] = what
                       THEN rows = size /\ loader_chunk'[t] = chunk + size
                       ELSE /\ chunk + rows = n
                            /\ (chunk \div size) + 1 = CeilDiv(n, size)
                            /\ db_count'[LoaderCity(t)][what] = n]_vars
    /\ [](\A t \in Threads :
            loader_pc[t] = "done" /\ ~TERMINATE_GRACEFULLY
              => \A i \in 1..Len(RUNNING_THREADS[t]) : \A what \in Tables :
                   db_count[RUNNING_THREADS[t][i]][what] = TargetOf(what))
    /\ [](\A t \in Threads :
            /\ loader_pc[t] \in {"vehicles", "rides"}
                 => db_count[LoaderCity(t)].users = num_users_per_city
            /\ loader_pc[t] = "rides"
                 => db_count[LoaderCity(t)].vehicles = num_vehicles_per_city)

\* 1601 rides: the third ride chunk holds the one record left
C19_Witness ==
    /\ num_rides = 1601
    /\ loader_pc[1] = "rides" /\ loader_chunk[1] = 1600
    /\ db_count[1].rides = 1600

\* ---- rides taken out of the pool

InPool(r) == \E i \in 1..Len(active_rides) : active_rides[i][2] = r
HeldByWorker(r) == \E w \in Threads : worker_ride[w] # <<>> /\ worker_ride[w][2] = r

\* C20: a ride popped from the pool by an end-ride is marked ended in storage
\* exactly once.  No started ride is out of the pool and out of every worker's
\* hands (its worker went on, finished or died; none is stuck in a storage
\* call) while still un-ended, also when end_ride raised TransactionError; and
\* no ride is ended twice.
C20_PoppedRideEndedOnce ==
    (WarmedUp /\ \A w \in Threads : worker_pc[w] # "blocked")
      => \A r \in ride_started :
           /\ (~InPool(r) /\ ~HeldByWorker(r)) => end_calls[r] >= 1
           /\ end_calls[r] <= 1

====
